---- MODULE Spec2Model ----
(***************************************************************************)
(* Model of weatherstem.go: the normalizer PopulateWeatherData, the config *)
(* resolver findConfigSettings / getConfigSettings and main's exit paths.  *)
(*                                                                         *)
(* Strings the program parses or leaves at their zero value are sequences  *)
(* of one-character strings ("" is << >>); strings it only copies or       *)
(* compares for equality are TLA+ strings.  A float64 is an integer count  *)
(* of 1/Scale units.                                                       *)
(***************************************************************************)
EXTENDS Integers, Sequences, FiniteSets, TLC

\* ------------------------------------------------------------- bounds
\* longest station latitude / longitude string
MaxStrLen == 2
\* most readings of one station record
MaxReadings == 2
\* most readings that differ from the base reading in a full 15-label record
MaxOdd == 1
\* most entries of a config file's station list
MaxStations == 2
\* most stations of one API response
MaxBatch == 2

\* ------------------------------------------------------------- strings
Alphabet == {"0", "1", "-", ".", "x"}

RECURSIVE StrsOfLen(_)
StrsOfLen(n) ==
    IF n = 0 THEN {<< >>}
    ELSE {Append(s, c) : s \in StrsOfLen(n - 1), c \in Alphabet}

Strs(n) == UNION {StrsOfLen(k) : k \in 0..n}

RECURSIVE Pow10(_)
Pow10(n) == IF n = 0 THEN 1 ELSE 10 * Pow10(n - 1)

\* one float64 unit is 1/Scale; every decimal the bounded strings can spell is exact
Scale == Pow10(MaxStrLen + 1)

Digits == {"0", "1", "2", "3", "4", "5", "6", "7", "8", "9"}

DigitVal(c) ==
    CASE c = "0" -> 0 [] c = "1" -> 1 [] c = "2" -> 2 [] c = "3" -> 3
      [] c = "4" -> 4 [] c = "5" -> 5 [] c = "6" -> 6 [] c = "7" -> 7
      [] c = "8" -> 8 [] c = "9" -> 9

\* strconv's mantissa scan: digits with at most one '.', stopping at the first
\* other character.  i is the next position, mant the digits read, dp the
\* number of digits read after the point.
RECURSIVE ScanMantissa(_, _, _, _, _, _)
ScanMantissa(s, i, mant, sawdot, sawdigits, dp) ==
    IF i > Len(s) THEN [i |-> i, mant |-> mant, sawdigits |-> sawdigits, dp |-> dp]
    ELSE IF s[i] = "." THEN
        IF sawdot THEN [i |-> i, mant |-> mant, sawdigits |-> sawdigits, dp |-> dp]
        ELSE ScanMantissa(s, i + 1, mant, TRUE, sawdigits, dp)
    ELSE IF s[i] \in Digits THEN
        ScanMantissa(s, i + 1, 10 * mant + DigitVal(s[i]), sawdot, TRUE,
                     IF sawdot THEN dp + 1 ELSE dp)
    ELSE [i |-> i, mant |-> mant, sawdigits |-> sawdigits, dp |-> dp]

\* +Inf as a float64 value (-PosInf is -Inf): the largest integer, beyond
\* every finite value of the model
PosInf == 2147483647

\* strconv's exponent scan: the digits from position i, the number capped as
\* strconv caps it
RECURSIVE ScanExponent(_, _, _)
ScanExponent(s, i, e) ==
    IF i <= Len(s) /\ s[i] \in Digits
    THEN ScanExponent(s, i + 1, IF e < 10000 THEN 10 * e + DigitVal(s[i]) ELSE e)
    ELSE [i |-> i, e |-> e]

\* the number of decimal digits of n > 0
RECURSIVE NumDigits(_)
NumDigits(n) == IF n < 10 THEN 1 ELSE 1 + NumDigits(n \div 10)

\* strconv.ParseFloat(s, 64) on decimal strings: an optional sign, the mantissa,
\* which must hold a digit, an optional exponent (e, optional sign, at least one
\* digit), and nothing after it.  A syntax error returns the value 0 with err
\* set; a number of a decimal order above 308 returns +Inf or -Inf with err
\* and range set; one of an order below -324 returns 0 without error.
ParseFloat(s) ==
    LET neg   == Len(s) > 0 /\ s[1] = "-"
        start == IF Len(s) > 0 /\ s[1] \in {"+", "-"} THEN 2 ELSE 1
        m     == ScanMantissa(s, start, 0, FALSE, FALSE, 0)
        hasE  == m.i <= Len(s) /\ s[m.i] \in {"e", "E"}
        eneg  == m.i + 1 <= Len(s) /\ s[m.i + 1] = "-"
        efrom == IF m.i + 1 <= Len(s) /\ s[m.i + 1] \in {"+", "-"} THEN m.i + 2 ELSE m.i + 1
        x     == ScanExponent(s, efrom, 0)
        eOk   == efrom <= Len(s) /\ s[efrom] \in Digits
        end   == IF hasE THEN x.i ELSE m.i
        exp   == IF hasE THEN (IF eneg THEN -x.e ELSE x.e) ELSE 0
        sign  == IF neg THEN -1 ELSE 1
        order == exp - m.dp + NumDigits(m.mant) - 1
    IN  IF ~m.sawdigits \/ (hasE /\ ~eOk) \/ end # Len(s) + 1
        THEN [val |-> 0, err |-> TRUE, range |-> FALSE]
        ELSE IF m.mant = 0 \/ order < -324
        THEN [val |-> 0, err |-> FALSE, range |-> FALSE]
        ELSE IF order > 308
        THEN [val |-> sign * PosInf, err |-> TRUE, range |-> TRUE]
        ELSE IF exp >= 0
        THEN [val |-> sign * m.mant * Pow10(exp) * (Scale \div Pow10(m.dp)),
              err |-> FALSE, range |-> FALSE]
        ELSE [val |-> sign * ((m.mant * Scale) \div Pow10(m.dp - exp)),
              err |-> FALSE, range |-> FALSE]

\* ------------------------------------------------------------- normalizer
\* the sensor_type strings PopulateWeatherData matches, in the order it tests them
KnownLabels ==
    << "Thermometer", "Dewpoint", "Wet Bulb Globe Temperature", "Wind Chill",
       "Heat Index", "Hygrometer", "Anemometer", "10 Minute Wind Gust",
       "Wind Vane", "Barometer", "Barometer Tendency", "Rain Gauge", "Rain Rate",
       "Solar Radiation Sensor", "UV Radiation Sensor" >>

KnownSet == {KnownLabels[i] : i \in 1..Len(KnownLabels)}

\* sensor_type strings the API could also send: none matches exactly
UnknownLabels == {"thermometer", "Lightning Detector"}

\* compassrose.DegreeToHeading(float32(deg), 3, ornate): a library outside the
\* repository, kept uninterpreted: the pair (abbreviation, name) of its arguments
DegreeToHeading(deg, prec, ornate) ==
    << <<"abbr", deg, prec, ornate>>, <<"name", deg, prec, ornate>> >>

\* the zero value of WeatherData
ZeroData ==
    [Label |-> "", Station |-> <<"", "", "">>,
     StationTopo |-> [Lat |-> 0, Lon |-> 0], StationDist |-> 0,
     Temperature |-> <<0, 0, 0, 0, 0>>, Humidity |-> 0,
     Windspeed |-> <<0, 0, 0>>, Wind |-> << << >>, << >> >>,
     Pressure |-> 0, PressureTrend |-> << >>,
     Rain |-> <<0, 0>>, Sun |-> <<0, 0>>]

\* the zero value of WeatherUnits
ZeroUnits ==
    [Label |-> "", Station |-> <<"", "", "">>,
     StationTopo |-> [Lat |-> "", Lon |-> ""], StationDist |-> "",
     Temperature |-> << << >>, << >>, << >>, << >>, << >> >>, Humidity |-> << >>,
     Windspeed |-> << << >>, << >>, << >> >>, Wind |-> << << >>, << >> >>,
     Pressure |-> << >>, PressureTrend |-> << >>,
     Rain |-> << << >>, << >> >>, Sun |-> << << >>, << >> >>]

\* the header with both coordinates taken from the latitude string
PopulateHeaderLatTwice(station, time) ==
    [data |-> [ZeroData EXCEPT
                 !.Label = "data",
                 !.Station = <<station.Handle, station.Name, time>>,
                 !.StationTopo = [Lat |-> ParseFloat(station.Latitude).val,
                                  Lon |-> ParseFloat(station.Latitude).val],
                 !.StationDist = 24 * (Scale \div 10)],
     units |-> [ZeroUnits EXCEPT
                 !.Label = "units",
                 !.Station = <<station.Handle, station.Name, time>>,
                 !.StationTopo = [Lat |-> "&deg;", Lon |-> "&deg;"]]]

\* lines 181-194: identity fields, station coordinate, fixed labels.
\* StationTopo keeps only Lat and Lon; Calc() derives from them and changes neither.
PopulateHeader(station, time) ==
    [data |-> [ZeroData EXCEPT
                 !.Label = "data",
                 !.Station = <<station.Handle, station.Name, time>>,
                 !.StationTopo = [Lat |-> ParseFloat(station.Latitude).val,
                                  Lon |-> ParseFloat(station.Longitude).val],
                 !.StationDist = 24 * (Scale \div 10)],
     units |-> [ZeroUnits EXCEPT
                 !.Label = "units",
                 !.Station = <<station.Handle, station.Name, time>>,
                 !.StationTopo = [Lat |-> "&deg;", Lon |-> "&deg;"]]]

\* lines 197-247: the if-chain on the sensor type t, storing the reading val
StoreReading(d, u, t, val, ornate) ==
    LET f == ParseFloat(val.Value).val
        s == val.UnitSymbol
    IN  IF t = "Thermometer" THEN
            [data |-> [d EXCEPT !.Temperature[1] = f], units |-> [u EXCEPT !.Temperature[1] = s]]
        ELSE IF t = "Dewpoint" THEN
            [data |-> [d EXCEPT !.Temperature[2] = f], units |-> [u EXCEPT !.Temperature[2] = s]]
        ELSE IF t = "Wet Bulb Globe Temperature" THEN
            [data |-> [d EXCEPT !.Temperature[3] = f], units |-> [u EXCEPT !.Temperature[3] = s]]
        ELSE IF t = "Wind Chill" THEN
            [data |-> [d EXCEPT !.Temperature[4] = f], units |-> [u EXCEPT !.Temperature[4] = s]]
        ELSE IF t = "Heat Index" THEN
            [data |-> [d EXCEPT !.Temperature[5] = f], units |-> [u EXCEPT !.Temperature[5] = s]]
        ELSE IF t = "Hygrometer" THEN
            [data |-> [d EXCEPT !.Humidity = f], units |-> [u EXCEPT !.Humidity = s]]
        ELSE IF t = "Anemometer" THEN
            [data |-> [d EXCEPT !.Windspeed[1] = f], units |-> [u EXCEPT !.Windspeed[1] = s]]
        ELSE IF t = "10 Minute Wind Gust" THEN
            [data |-> [d EXCEPT !.Windspeed[2] = f], units |-> [u EXCEPT !.Windspeed[2] = s]]
        ELSE IF t = "Wind Vane" THEN
            [data |-> [d EXCEPT !.Windspeed[3] = f,
                                !.Wind = DegreeToHeading(f, 3, ornate)],
             units |-> [u EXCEPT !.Windspeed[3] = s]]
        ELSE IF t = "Barometer" THEN
            [data |-> [d EXCEPT !.Pressure = f], units |-> [u EXCEPT !.Pressure = s]]
        ELSE IF t = "Barometer Tendency" THEN
            [data |-> [d EXCEPT !.PressureTrend = val.Value],
             units |-> [u EXCEPT !.PressureTrend = s]]
        ELSE IF t = "Rain Gauge" THEN
            [data |-> [d EXCEPT !.Rain[1] = f], units |-> [u EXCEPT !.Rain[1] = s]]
        ELSE IF t = "Rain Rate" THEN
            [data |-> [d EXCEPT !.Rain[2] = f], units |-> [u EXCEPT !.Rain[2] = s]]
        ELSE IF t = "Solar Radiation Sensor" THEN
            [data |-> [d EXCEPT !.Sun[1] = f], units |-> [u EXCEPT !.Sun[1] = s]]
        ELSE IF t = "UV Radiation Sensor" THEN
            [data |-> [d EXCEPT !.Sun[2] = f], units |-> [u EXCEPT !.Sun[2] = s]]
        ELSE [data |-> d, units |-> u]

\* the slot of the data record the label t names (struct comment, lines 68-88)
SlotValue(d, t) ==
    CASE t = "Thermometer" -> d.Temperature[1]
      [] t = "Dewpoint" -> d.Temperature[2]
      [] t = "Wet Bulb Globe Temperature" -> d.Temperature[3]
      [] t = "Wind Chill" -> d.Temperature[4]
      [] t = "Heat Index" -> d.Temperature[5]
      [] t = "Hygrometer" -> d.Humidity
      [] t = "Anemometer" -> d.Windspeed[1]
      [] t = "10 Minute Wind Gust" -> d.Windspeed[2]
      [] t = "Wind Vane" -> d.Windspeed[3]
      [] t = "Barometer" -> d.Pressure
      [] t = "Barometer Tendency" -> d.PressureTrend
      [] t = "Rain Gauge" -> d.Rain[1]
      [] t = "Rain Rate" -> d.Rain[2]
      [] t = "Solar Radiation Sensor" -> d.Sun[1]
      [] t = "UV Radiation Sensor" -> d.Sun[2]

\* the slot of the units record the label t names
SlotUnit(u, t) ==
    CASE t = "Thermometer" -> u.Temperature[1]
      [] t = "Dewpoint" -> u.Temperature[2]
      [] t = "Wet Bulb Globe Temperature" -> u.Temperature[3]
      [] t = "Wind Chill" -> u.Temperature[4]
      [] t = "Heat Index" -> u.Temperature[5]
      [] t = "Hygrometer" -> u.Humidity
      [] t = "Anemometer" -> u.Windspeed[1]
      [] t = "10 Minute Wind Gust" -> u.Windspeed[2]
      [] t = "Wind Vane" -> u.Windspeed[3]
      [] t = "Barometer" -> u.Pressure
      [] t = "Barometer Tendency" -> u.PressureTrend
      [] t = "Rain Gauge" -> u.Rain[1]
      [] t = "Rain Rate" -> u.Rain[2]
      [] t = "Solar Radiation Sensor" -> u.Sun[1]
      [] t = "UV Radiation Sensor" -> u.Sun[2]

\* the zero value of the data slot of t: "" for the trend string, else 0
SlotZero(t) == IF t = "Barometer Tendency" THEN << >> ELSE 0

\* the loop body with the Rain Rate branch storing into the Rain Gauge slot
ApplyReadingMisrouted(d, u, val, ornate) ==
    StoreReading(d, u, IF val.SensorType = "Rain Rate" THEN "Rain Gauge" ELSE val.SensorType,
                 val, ornate)

\* the loop body keeping the first reading of a label instead of the last
ApplyReadingFirstWins(d, u, val, ornate) ==
    IF /\ val.SensorType \in KnownSet
       /\ \/ SlotValue(d, val.SensorType) # SlotZero(val.SensorType)
          \/ SlotUnit(u, val.SensorType) # << >>
    THEN [data |-> d, units |-> u]
    ELSE StoreReading(d, u, val.SensorType, val, ornate)

\* the loop body matching the sensor type without regard to letter case
ApplyReadingAnyCase(d, u, val, ornate) ==
    StoreReading(d, u, IF val.SensorType = "thermometer" THEN "Thermometer" ELSE val.SensorType,
                 val, ornate)

\* lines 196-248: one pass of the loop body, which tests val.SensorType
ApplyReading(d, u, val, ornate) == StoreReading(d, u, val.SensorType, val, ornate)

\* the loop leaving the function at the first numeric value that fails to parse
RECURSIVE PopulateLoopStopOnError(_, _, _, _)
PopulateLoopStopOnError(r, readings, i, ornate) ==
    IF i > Len(readings) THEN r
    ELSE IF /\ readings[i].SensorType \in KnownSet \ {"Barometer Tendency"}
            /\ ParseFloat(readings[i].Value).err
    THEN r
    ELSE PopulateLoopStopOnError(ApplyReading(r.data, r.units, readings[i], ornate),
                                 readings, i + 1, ornate)

\* the loop of line 196 over readings[i..], from the pair r
RECURSIVE PopulateLoop(_, _, _, _)
PopulateLoop(r, readings, i, ornate) ==
    IF i > Len(readings) THEN r
    ELSE PopulateLoop(ApplyReading(r.data, r.units, readings[i], ornate),
                      readings, i + 1, ornate)

\* PopulateWeatherData(winfo, rose) as a function of its arguments
PopulateWeatherData(winfo, ornate) ==
    PopulateLoop(PopulateHeader(winfo.WeatherStation, winfo.WeatherRecord.ReadingsTimestamp),
                 winfo.WeatherRecord.RecordReadings, 1, ornate)

\* ------------------------------------------------------------- config resolver
\* line 28
configSettingsVersion == <<"3", ".", "0">>

\* lines 312, 315: the fallback location, in 1/10000 degree
NYCLat == 407678
NYCLon == -739814

\* the byte value of a character of a version string
Ord(c) ==
    CASE c = "." -> 46 [] c = "0" -> 48 [] c = "1" -> 49 [] c = "2" -> 50
      [] c = "3" -> 51 [] c = "4" -> 52 [] c = "5" -> 53 [] c = "6" -> 54
      [] c = "7" -> 55 [] c = "8" -> 56 [] c = "9" -> 57

\* Go's a < b on strings: byte by byte, a proper prefix being smaller
RECURSIVE StrLess(_, _)
StrLess(a, b) ==
    IF b = << >> THEN FALSE
    ELSE IF a = << >> THEN TRUE
    ELSE IF Ord(a[1]) # Ord(b[1]) THEN Ord(a[1]) < Ord(b[1])
    ELSE StrLess(Tail(a), Tail(b))

\* Go's a <= b on strings
StrLeq(a, b) == a = b \/ StrLess(a, b)

\* the zero value of configSettings; Me keeps only Lat and Lon, the fields
\* that Coord.Calc() reads and does not change
ZeroConfig ==
    [Version |-> << >>, URL |-> "", Key |-> "", Stations |-> << >>,
     Me |-> [Lat |-> 0, Lon |-> 0]]

\* lines 298, 303, 317: which branch the declared version takes
VersionBranch(configVersion) ==
    IF configVersion = configSettingsVersion THEN "equal"
    ELSE IF StrLeq(configVersion, configSettingsVersion) THEN "older"
    ELSE "mismatch"

\* json.Unmarshal(configJSON, &config) on a well-formed text: every key of the
\* text overwrites its field; "me" may be left out, and then Me is kept
Unmarshal(config, text) ==
    [Version |-> text.version, URL |-> text.api_url, Key |-> text.api_key,
     Stations |-> text.stations,
     Me |-> IF text.me = << >> THEN config.Me ELSE text.me[1]]

\* lines 311-316 with the test inverted: a set location is overwritten
ApplyDefaultsInverted(config) ==
    [config EXCEPT !.Me.Lat = IF @ # 0 THEN NYCLat ELSE @,
                   !.Me.Lon = IF @ # 0 THEN NYCLon ELSE @]

\* lines 311-316: a zero latitude or longitude becomes the fallback
ApplyDefaults(config) ==
    [config EXCEPT !.Me.Lat = IF @ = 0 THEN NYCLat ELSE @,
                   !.Me.Lon = IF @ = 0 THEN NYCLon ELSE @]

\* a panic: the deferred Close runs, the process dies with Go's exit status 2
Panicked(config, lines) == [ret |-> "panic", config |-> config, log |-> lines]

\* lines 298-302 with the migration defaulting also applied to a current file
EqualBranchDefaulting(config, text) ==
    IF text.valid
    THEN [ret |-> "nil", config |-> ApplyDefaults(Unmarshal(config, text)), log |-> << >>]
    ELSE Panicked(config, <<"Cannot unmarshal config">>)

\* lines 298-302: the declared version is the supported one
EqualBranch(config, text) ==
    IF text.valid
    THEN [ret |-> "nil", config |-> Unmarshal(config, text), log |-> << >>]
    ELSE Panicked(config, <<"Cannot unmarshal config">>)

\* lines 303-316: the declared version compares below the supported one
OlderBranch(config, text) ==
    IF text.valid
    THEN [ret |-> "nil", config |-> ApplyDefaults(Unmarshal(config, text)),
          log |-> <<"WARNING">>]
    ELSE Panicked(config, <<"WARNING", "Cannot unmarshal config">>)

\* lines 274-324: getConfigSettings on a path of the given kind holding text.
\* kind "absent": os.Open fails; "locked": it opens and ReadAll fails; "file":
\* the text is read.  text.sniff tells what the scan for the version finds:
\* "absent" no substring version, "bare" the substring without a quoted key
\* and value after it (v1[1] is out of range), "found" text.version.
getConfigSettings(config, kind, text) ==
    IF kind = "absent" THEN [ret |-> "err", config |-> config, log |-> << >>]
    ELSE IF kind = "locked" THEN Panicked(config, <<"Cannot read config">>)
    ELSE IF text.sniff = "absent" THEN Panicked(config, <<"No version in config file.">>)
    ELSE IF text.sniff = "bare" THEN Panicked(config, <<"index out of range">>)
    ELSE IF VersionBranch(text.version) = "equal" THEN EqualBranch(config, text)
    ELSE IF VersionBranch(text.version) = "older" THEN OlderBranch(config, text)
    ELSE Panicked(config, <<"Config version mismatch">>)

\* lines 255-262: the candidate paths
usualFiles(home) ==
    IF home THEN <<"weatherstem.json", "$HOME/.weatherstem.json",
                   "$HOME/.config/weatherstem.json">>
    ELSE <<"weatherstem.json", "", "">>

Paths == {"weatherstem.json", "$HOME/.weatherstem.json", "$HOME/.config/weatherstem.json"}

\* ------------------------------------------------------------- state
VARIABLES
    winfo,    \* PopulateWeatherData's argument; RecordReadings holds the readings ranged over so far
    rose,     \* PopulateWeatherData's flag argument
    wdata,    \* its result in progress
    wunits,   \* its units result in progress
    ppc,      \* its position: "entry", "loop", "done" ("idle" when main runs)
    nargs,    \* flag.NArg()
    home,     \* whether HOME is set
    fs,       \* the file system: path -> "absent", "locked", "file"
    flags,    \* main's flags json, kilo, mile, lite, orig (rose is the variable rose)
    cpc,      \* main's position: "start", "find", "resolved", "net", "parse",
              \* "convert", "print", "exit", "panic" ("idle" when it does not run)
    idx,      \* findConfigSettings' loop index, 1..3
    opened,   \* the paths os.Open was called on, in order
    reads,    \* the (path, text) pairs ReadAll returned, in order
    myConfig, \* main's configSettings
    err,      \* TRUE when the last error value is not nil
    log,      \* the diagnostics written so far
    exitCode, \* the process exit status, -1 while it runs
    netCalls, \* the number of POSTs made
    weatherBytes, \* the response body
    weatherArr,   \* the parsed response
    dataArr,      \* the normalized records
    unitArr       \* their units

popVars == <<winfo, wdata, wunits, ppc>>

mainVars == <<nargs, home, fs, flags, cpc, idx, opened, reads, myConfig, err, log,
              exitCode, netCalls, weatherBytes, weatherArr, dataArr, unitArr>>

vars == <<popVars, rose, mainVars>>

\* a response body: ok tells whether it parses as the array arr
NoBody == [ok |-> FALSE, arr |-> << >>]

NoFlags == [json |-> FALSE, kilo |-> FALSE, mile |-> FALSE, lite |-> FALSE, orig |-> FALSE]

\* main is not running
IdleMain ==
    /\ nargs = 0 /\ home = FALSE /\ fs = [p \in Paths |-> "absent"]
    /\ flags = NoFlags /\ cpc = "idle" /\ idx = 1
    /\ opened = << >> /\ reads = << >> /\ myConfig = ZeroConfig /\ err = FALSE
    /\ log = << >> /\ exitCode = -1 /\ netCalls = 0
    /\ weatherBytes = NoBody /\ weatherArr = << >> /\ dataArr = << >> /\ unitArr = << >>

TheStation(lat, lon) ==
    [Handle |-> "ponceinlet", Name |-> "Ponce Inlet", Latitude |-> lat, Longitude |-> lon]

TheRecord == [ReadingsTimestamp |-> "2020-08-01 12:00:00", RecordReadings |-> << >>]

Reading(t, v, s) == [SensorType |-> t, Value |-> v, UnitSymbol |-> s]

\* (value, unit symbol) of a reading: a number with a unit, a zero without one,
\* the "down" sentinel with a unit, a number without one
SensorInputs ==
    { << <<"1">>, <<"F">> >>, << <<"0">>, << >> >>, << <<"x">>, <<"F">> >>,
      << <<"1">>, << >> >> }

\* every reading over the labels and the sensor inputs
Readings ==
    {Reading(t, p[1], p[2]) : t \in KnownSet \cup UnknownLabels, p \in SensorInputs}

Sofar == winfo.WeatherRecord.RecordReadings

InitPop(lats, lons) ==
    /\ \E lat \in lats, lon \in lons :
         winfo = [WeatherStation |-> TheStation(lat, lon), WeatherRecord |-> TheRecord]
    /\ rose \in BOOLEAN
    /\ wdata = ZeroData
    /\ wunits = ZeroUnits
    /\ ppc = "entry"
    /\ IdleMain

\* lines 181-194
PopEnter ==
    /\ ppc = "entry"
    /\ LET h == PopulateHeader(winfo.WeatherStation, winfo.WeatherRecord.ReadingsTimestamp)
       IN  wdata' = h.data /\ wunits' = h.units
    /\ ppc' = "loop"
    /\ UNCHANGED <<winfo, rose, mainVars>>

\* lines 196-248: the loop reaches the reading val
PopReading(val) ==
    /\ ppc = "loop"
    /\ LET r == ApplyReading(wdata, wunits, val, rose)
       IN  wdata' = r.data /\ wunits' = r.units
    /\ winfo' = [winfo EXCEPT !.WeatherRecord.RecordReadings = Append(@, val)]
    /\ UNCHANGED <<rose, ppc, mainVars>>

\* line 250: the range is exhausted
PopReturn ==
    /\ ppc = "loop"
    /\ ppc' = "done"
    /\ UNCHANGED <<winfo, rose, wdata, wunits, mainVars>>

\* --- SpecPopulate: any record of at most MaxReadings readings
PopNextReading ==
    /\ Len(Sofar) < MaxReadings
    /\ \E val \in Readings : PopReading(val)

InitPopulate == InitPop({<<"1">>}, {<<"-", "1">>})

NextPopulate == PopEnter \/ PopNextReading \/ PopReturn

SpecPopulate == InitPopulate /\ [][NextPopulate]_vars

\* --- SpecTopo: any station coordinate strings, a short record
TopoReadings ==
    {Reading("Wind Vane", <<"1">>, <<"F">>), Reading("Lightning Detector", <<"1">>, <<"F">>)}

TopoNextReading ==
    /\ Len(Sofar) < MaxReadings
    /\ \E val \in TopoReadings : PopReading(val)

InitTopo == InitPop(Strs(MaxStrLen), Strs(MaxStrLen))

NextTopo == PopEnter \/ TopoNextReading \/ PopReturn

SpecTopo == InitTopo /\ [][NextTopo]_vars

\* --- SpecAll: records with one reading per known label, in a rotation of the
\* label order, at most MaxOdd of them differing from the base input
BaseInput == << <<"1">>, <<"F">> >>

LabelIndex(t) == CHOOSE i \in 1..Len(KnownLabels) : KnownLabels[i] = t

NextLabels ==
    IF Sofar = << >> THEN KnownSet
    ELSE {KnownLabels[(LabelIndex(Sofar[Len(Sofar)].SensorType) % Len(KnownLabels)) + 1]}

OddCount ==
    Cardinality({i \in 1..Len(Sofar) : <<Sofar[i].Value, Sofar[i].UnitSymbol>> # BaseInput})

AllNextReading ==
    /\ Len(Sofar) < Len(KnownLabels)
    /\ \E t \in NextLabels, p \in SensorInputs :
         /\ (p # BaseInput => OddCount < MaxOdd)
         /\ PopReading(Reading(t, p[1], p[2]))

InitAll == InitPop({<<"1">>}, {<<"-", "1">>})

NextAll == PopEnter \/ AllNextReading \/ PopReturn

SpecAll == InitAll /\ [][NextAll]_vars

\* ------------------------------------------------------------- main
\* sequences over S of length at most n
RECURSIVE SeqsOfLen(_, _)
SeqsOfLen(S, n) ==
    IF n = 0 THEN {<< >>}
    ELSE {Append(q, x) : q \in SeqsOfLen(S, n - 1), x \in S}

SeqsUpTo(S, n) == UNION {SeqsOfLen(S, k) : k \in 0..n}

Versions == {<<"2", ".", "0">>, <<"3", ".", "0">>, <<"4", ".", "0">>, <<"1", "0", ".", "0">>}

\* the "me" key of a config text: left out, the zero coordinate, a coordinate
\* on the equator, a coordinate off both axes
MeKeys ==
    {<< >>, <<[Lat |-> 0, Lon |-> 0]>>, <<[Lat |-> 0, Lon |-> -809500]>>,
     <<[Lat |-> 291300, Lon |-> -809500]>>}

Text(sniff, version, valid, key, stations, me) ==
    [sniff |-> sniff, version |-> version, valid |-> valid,
     api_url |-> "https://api.weatherstem.com/api", api_key |-> key,
     stations |-> stations, me |-> me]

\* what a path that is not a file holds
NoText == Text("absent", << >>, FALSE, "", << >>, << >>)

\* the config texts: without the word version, with it but no quoted key,
\* malformed ones that declare a version, and well-formed ones
Texts ==
    {NoText, Text("bare", << >>, FALSE, "", << >>, << >>)}
    \cup {Text("found", v, FALSE, "", << >>, << >>) : v \in Versions}
    \cup {Text("found", v, TRUE, k, st, me) :
              v \in Versions, k \in {"happy3solar9fly", "polyshazbotmicrofish"},
              st \in SeqsUpTo({"ponceinlet", "fswndaytonabch"}, MaxStations),
              me \in MeKeys}

\* a few config texts, one for each way getConfigSettings ends
MainTexts ==
    {NoText,
     Text("found", <<"4", ".", "0">>, TRUE, "happy3solar9fly", <<"ponceinlet">>, << >>),
     Text("found", <<"3", ".", "0">>, FALSE, "", << >>, << >>),
     Text("found", <<"3", ".", "0">>, TRUE, "happy3solar9fly", <<"ponceinlet">>,
          <<[Lat |-> 291300, Lon |-> -809500]>>),
     Text("found", <<"2", ".", "0">>, TRUE, "happy3solar9fly", <<"ponceinlet">>, << >>)}

Kind(path) == IF path = "" THEN "absent" ELSE fs[path]

\* lines 265-270 without the return on success: the loop always runs to its end
LoopEndsAtLastOnly(ret, i) == i = 3

\* lines 265-270 returning on the first error instead of on the first success
LoopEndsOnError(ret, i) == ret = "err" \/ i = 3

\* lines 265-270: the loop ends on the first nil error and after the last candidate
LoopEnds(ret, i) == ret = "nil" \/ i = 3

\* lines 263-270: one pass of findConfigSettings' loop, a whole call of
\* getConfigSettings on usualFiles[idx]; the last pass also returns
FindProbe(texts) ==
    /\ cpc = "find"
    /\ LET path == usualFiles(home)[idx]
       IN  \E text \in (IF Kind(path) = "file" THEN texts ELSE {NoText}) :
             LET r == getConfigSettings(myConfig, Kind(path), text)
             IN  /\ opened' = Append(opened, path)
                 /\ reads' = IF Kind(path) = "file"
                             THEN Append(reads, [path |-> path, text |-> text])
                             ELSE reads
                 /\ myConfig' = r.config
                 /\ log' = log \o r.log
                 /\ err' = (r.ret # "nil")
                 /\ IF r.ret = "panic"
                    THEN cpc' = "panic" /\ exitCode' = 2 /\ idx' = idx
                    ELSE IF LoopEnds(r.ret, idx)
                    THEN cpc' = "resolved" /\ exitCode' = exitCode /\ idx' = idx
                    ELSE cpc' = "find" /\ exitCode' = exitCode /\ idx' = idx + 1
    /\ UNCHANGED <<popVars, rose, nargs, home, fs, flags, netCalls, weatherBytes,
                   weatherArr, dataArr, unitArr>>

\* lines 474-479 exiting with the network-failure status
MainConfigCheckExit1 ==
    /\ cpc = "resolved"
    /\ IF err
       THEN /\ log' = Append(log, "Config file not found.")
            /\ exitCode' = 1
            /\ cpc' = "exit"
       ELSE /\ cpc' = "net"
            /\ UNCHANGED <<log, exitCode>>
    /\ UNCHANGED <<popVars, rose, nargs, home, fs, flags, idx, opened, reads, myConfig,
                   err, netCalls, weatherBytes, weatherArr, dataArr, unitArr>>

\* lines 461-471: flag.Parse and the help check
MainStart ==
    /\ cpc = "start"
    /\ IF nargs > 0
       THEN /\ log' = Append(log, "Current WBGT flags:")
            /\ exitCode' = 0
            /\ cpc' = "exit"
       ELSE /\ cpc' = "find"
            /\ UNCHANGED <<log, exitCode>>
    /\ UNCHANGED <<popVars, rose, nargs, home, fs, flags, idx, opened, reads, myConfig,
                   err, netCalls, weatherBytes, weatherArr, dataArr, unitArr>>

\* lines 474-479: findConfigSettings has returned
MainConfigCheck ==
    /\ cpc = "resolved"
    /\ IF err
       THEN /\ log' = Append(log, "Config file not found.")
            /\ exitCode' = 3
            /\ cpc' = "exit"
       ELSE /\ cpc' = "net"
            /\ UNCHANGED <<log, exitCode>>
    /\ UNCHANGED <<popVars, rose, nargs, home, fs, flags, idx, opened, reads, myConfig,
                   err, netCalls, weatherBytes, weatherArr, dataArr, unitArr>>

\* the stations an API response can hold: one with a plain record, one that
\* reports the "down" sentinel for its latitude and whose barometer goes down
\* between two good readings, one whose hygrometer reports a number beyond
\* float64
WeatherInfos ==
    {[WeatherStation |-> TheStation(<<"1">>, <<"-", "1">>),
      WeatherRecord |-> [TheRecord EXCEPT !.RecordReadings =
          <<Reading("Thermometer", <<"1">>, <<"F">>), Reading("Wind Vane", <<"1">>, <<"F">>)>>]],
     [WeatherStation |-> TheStation(<<"x">>, <<"1">>),
      WeatherRecord |-> [TheRecord EXCEPT !.RecordReadings =
          <<Reading("Barometer", <<"1">>, <<"F">>), Reading("Barometer", <<"x">>, <<"F">>),
            Reading("Rain Gauge", <<"1">>, <<"F">>)>>]],
     [WeatherStation |-> TheStation(<<"-", "1">>, <<"1">>),
      WeatherRecord |-> [TheRecord EXCEPT !.RecordReadings =
          <<Reading("Hygrometer", <<"1", "e", "9", "9", "9">>, <<"F">>),
            Reading("Thermometer", <<"1">>, <<"F">>)>>]]}

Bodies == {NoBody} \cup {[ok |-> TRUE, arr |-> a] : a \in SeqsUpTo(WeatherInfos, MaxBatch)}

\* lines 482-486 and getWeatherInfoFromWeb, lines 335-367: the one POST; it
\* fails in client.Post or in ReadAll, or returns a body
MainFetch ==
    /\ cpc = "net"
    /\ netCalls' = netCalls + 1
    /\ \E outcome \in {"post failed", "read failed", "body"} :
         IF outcome = "body"
         THEN /\ \E body \in Bodies : weatherBytes' = body
              /\ err' = FALSE
              /\ cpc' = "parse"
              /\ UNCHANGED <<log, exitCode>>
         ELSE /\ err' = TRUE
              /\ log' = Append(log, "Call to API failed.")
              /\ exitCode' = 1
              /\ cpc' = "exit"
              /\ UNCHANGED weatherBytes
    /\ UNCHANGED <<popVars, rose, nargs, home, fs, flags, idx, opened, reads, myConfig,
                   weatherArr, dataArr, unitArr>>

\* lines 489-494: json.Unmarshal of the response into weatherArr
MainParse ==
    /\ cpc = "parse"
    /\ IF weatherBytes.ok
       THEN /\ weatherArr' = weatherBytes.arr
            /\ err' = FALSE
            /\ cpc' = "convert"
            /\ UNCHANGED <<log, exitCode>>
       ELSE /\ err' = TRUE
            /\ log' = Append(log, "Cannot unmarshal API results.")
            /\ exitCode' = 2
            /\ cpc' = "exit"
            /\ UNCHANGED weatherArr
    /\ UNCHANGED <<popVars, rose, nargs, home, fs, flags, idx, opened, reads, myConfig,
                   netCalls, weatherBytes, dataArr, unitArr>>

\* lines 501-510: the unit of the station distance
DistUnit == IF flags.kilo THEN "km" ELSE IF flags.mile THEN "mi" ELSE "NM"

\* haversine.DistanceKm / DistanceMi / DistanceNM, a library outside the
\* repository, kept uninterpreted
Distance(unit, me, topo) == <<unit, me, topo>>

\* lines 497-511: every station of the response is normalized
MainConvert ==
    /\ cpc = "convert"
    /\ dataArr' = [i \in 1..Len(weatherArr) |->
                     LET r == PopulateWeatherData(weatherArr[i], rose)
                     IN  [r.data EXCEPT !.StationDist =
                              Distance(DistUnit, myConfig.Me, r.data.StationTopo)]]
    /\ unitArr' = [i \in 1..Len(weatherArr) |->
                     [PopulateWeatherData(weatherArr[i], rose).units
                          EXCEPT !.StationDist = DistUnit]]
    /\ cpc' = "print"
    /\ UNCHANGED <<popVars, rose, nargs, home, fs, flags, idx, opened, reads, myConfig,
                   err, log, exitCode, netCalls, weatherBytes, weatherArr>>

\* lines 514-532: which printer shows a station
Printer ==
    IF flags.orig THEN "PrintWeatherInfoJSON"
    ELSE IF flags.json THEN "PrintWeatherDataJSON"
    ELSE IF flags.lite THEN "PrintWeatherData"
    ELSE "PrintWeatherDataUnits"

\* lines 514-535: the output, then main returns
MainPrint ==
    /\ cpc = "print"
    /\ log' = log \o [i \in 1..Len(weatherArr) |-> Printer]
    /\ exitCode' = 0
    /\ cpc' = "exit"
    /\ UNCHANGED <<popVars, rose, nargs, home, fs, flags, idx, opened, reads, myConfig,
                   err, netCalls, weatherBytes, weatherArr, dataArr, unitArr>>

\* main has not started; the normalizer is not called on its own
InitRun(argcs, flagsets, roses) ==
    /\ winfo = [WeatherStation |-> TheStation(<< >>, << >>), WeatherRecord |-> TheRecord]
    /\ wdata = ZeroData /\ wunits = ZeroUnits /\ ppc = "idle"
    /\ rose \in roses
    /\ nargs \in argcs
    /\ home \in BOOLEAN
    /\ fs \in [Paths -> {"absent", "locked", "file"}]
    /\ flags \in flagsets
    /\ cpc = "start" /\ idx = 1
    /\ opened = << >> /\ reads = << >> /\ myConfig = ZeroConfig /\ err = FALSE
    /\ log = << >> /\ exitCode = -1 /\ netCalls = 0
    /\ weatherBytes = NoBody /\ weatherArr = << >> /\ dataArr = << >> /\ unitArr = << >>

\* --- SpecConfig: main up to the network call, over every config text
FindProbeConfig == FindProbe(Texts)

InitConfig == InitRun({0}, {NoFlags}, {FALSE})

NextConfig == MainStart \/ FindProbeConfig \/ MainConfigCheck

SpecConfig == InitConfig /\ [][NextConfig]_vars

\* --- Spec: all of main, over a few config texts
FindProbeMain == FindProbe(MainTexts)

Init ==
    InitRun({0, 1},
            [json : BOOLEAN, kilo : BOOLEAN, mile : BOOLEAN, lite : BOOLEAN, orig : BOOLEAN],
            BOOLEAN)

Next ==
    MainStart \/ FindProbeMain \/ MainConfigCheck \/ MainFetch \/ MainParse
      \/ MainConvert \/ MainPrint

Spec == Init /\ [][Next]_vars

\* ------------------------------------------------------------- claims: normalizer
\* positions of the readings of label t ranged over so far
IndicesOf(t) == {i \in 1..Len(Sofar) : Sofar[i].SensorType = t}

\* what a reading of a known label stores: the raw string for the trend, else the parse
Stored(val) ==
    IF val.SensorType = "Barometer Tendency" THEN val.Value ELSE ParseFloat(val.Value).val

OneOfEach == \A t \in KnownSet : Cardinality(IndicesOf(t)) = 1

TheReading(t) == Sofar[CHOOSE i \in IndicesOf(t) : TRUE]

C2_LastWriteWins ==
    ppc = "done" =>
        \A t \in KnownSet :
            Cardinality(IndicesOf(t)) >= 2 =>
                LET j == CHOOSE k \in IndicesOf(t) : \A i \in IndicesOf(t) : i <= k
                IN  /\ SlotValue(wdata, t) = Stored(Sofar[j])
                    /\ SlotUnit(wunits, t) = Sofar[j].UnitSymbol
                    /\ (t = "Wind Vane" =>
                          wdata.Wind = DegreeToHeading(Stored(Sofar[j]), 3, rose))

\* C2 witness: two Wind Vane readings with different values and units were
\* normalized
C2_Witness ==
    /\ ppc = "done"
    /\ \E i, j \in IndicesOf("Wind Vane") :
         /\ i < j
         /\ Stored(Sofar[i]) # Stored(Sofar[j])
         /\ Sofar[i].UnitSymbol # Sofar[j].UnitSymbol

\* the sequence s without its i-th element
RemoveAt(s, i) == SubSeq(s, 1, i - 1) \o SubSeq(s, i + 1, Len(s))

\* C3: a reading whose label is not a known label changes nothing: the result
\* is the result for the record with that reading removed.
C3_UnknownLabelIgnored ==
    ppc = "done" =>
        \A i \in 1..Len(Sofar) :
            Sofar[i].SensorType \notin KnownSet =>
                LET without == [winfo EXCEPT !.WeatherRecord.RecordReadings = RemoveAt(@, i)]
                    r == PopulateWeatherData(without, rose)
                IN  wdata = r.data /\ wunits = r.units

\* C3 witness: a record with a known reading followed by a reading whose label
\* differs from a known one only in letter case was normalized
C3_Witness ==
    /\ ppc = "done"
    /\ Len(Sofar) = 2
    /\ Sofar[1].SensorType = "Thermometer" /\ Sofar[1].Value = <<"0">>
    /\ Sofar[2].SensorType = "thermometer" /\ Sofar[2].Value = <<"1">>

\* C4 (amended): a coordinate component whose string is not a number is
\* exactly 0 and the other component is the parse of its own string: the
\* coordinate is (0,0) only when both strings fail or spell zero.
C4_FailedComponentIsZero ==
    ppc \in {"loop", "done"} =>
        LET lat == ParseFloat(winfo.WeatherStation.Latitude)
            lon == ParseFloat(winfo.WeatherStation.Longitude)
        IN  /\ (lat.err => wdata.StationTopo.Lat = 0)
            /\ (lon.err => wdata.StationTopo.Lon = 0)
            /\ (~lat.err => wdata.StationTopo.Lat = lat.val)
            /\ (~lon.err => wdata.StationTopo.Lon = lon.val)

\* C4 witness: the latitude string failed to parse, the longitude parsed to a
\* non-zero number, and the function returned
C4_Witness ==
    /\ ppc = "done"
    /\ ParseFloat(winfo.WeatherStation.Latitude).err
    /\ ~ParseFloat(winfo.WeatherStation.Longitude).err
    /\ wdata.StationTopo.Lon # 0

\* C4 (as claimed): whenever the latitude or the longitude string fails to
\* parse, the station coordinate is exactly (0,0).
C4_AnyFailureGivesOrigin ==
    (/\ ppc \in {"loop", "done"}
     /\ \/ ParseFloat(winfo.WeatherStation.Latitude).err
        \/ ParseFloat(winfo.WeatherStation.Longitude).err)
    => wdata.StationTopo = [Lat |-> 0, Lon |-> 0]

\* ------------------------------------------------------------- claims: config resolver
\* the number a string of digits spells
RECURSIVE Decimal(_)
Decimal(ds) ==
    IF ds = << >> THEN 0 ELSE 10 * Decimal(SubSeq(ds, 1, Len(ds) - 1)) + DigitVal(ds[Len(ds)])

\* a version "major.minor" as the pair of its numbers
VersionNumber(v) ==
    LET dot == CHOOSE i \in 1..Len(v) : v[i] = "."
    IN  <<Decimal(SubSeq(v, 1, dot - 1)), Decimal(SubSeq(v, dot + 1, Len(v)))>>

\* version a is a later release than version b
Newer(a, b) ==
    \/ VersionNumber(a)[1] > VersionNumber(b)[1]
    \/ VersionNumber(a)[1] = VersionNumber(b)[1] /\ VersionNumber(a)[2] > VersionNumber(b)[2]

\* the text getConfigSettings read last
LastRead == reads[Len(reads)].text

\* findConfigSettings has returned nil
Resolved == cpc \in {"resolved", "net"} /\ ~err

\* C5: a config file that declares a version newer than the supported "3.0"
\* is fatal: getConfigSettings panics, no field of the Config is set, and
\* neither the equal branch nor the migration branch (its warning) is taken.
C5_NewerVersionIsFatal ==
    (reads # << >> /\ LastRead.sniff = "found"
       /\ Newer(LastRead.version, configSettingsVersion))
    => /\ cpc = "panic"
       /\ myConfig = ZeroConfig
       /\ log = <<"Config version mismatch">>

\* C6: a well-formed config file of an older version without a location
\* resolves to the fallback location (40.7678, -73.9814) and the migration
\* warning is logged; a location the file did not give is set only in the
\* older-version branch.
C6_OlderVersionDefaultsLocation ==
    (Resolved /\ reads # << >>) =>
        /\ (/\ Newer(configSettingsVersion, LastRead.version)
            /\ LastRead.me \in {<< >>, <<[Lat |-> 0, Lon |-> 0]>>})
           => /\ myConfig.Me = [Lat |-> NYCLat, Lon |-> NYCLon]
              /\ log = <<"WARNING">>
        /\ (/\ myConfig.Me # [Lat |-> 0, Lon |-> 0]
            /\ LastRead.me \in {<< >>, <<[Lat |-> 0, Lon |-> 0]>>})
           => VersionBranch(LastRead.version) = "older"

\* C6 witness: a version 2.0 file without a "me" key was resolved
C6_Witness ==
    /\ Resolved /\ reads # << >>
    /\ LastRead.version = <<"2", ".", "0">>
    /\ LastRead.me = << >>
    /\ myConfig.Me.Lat = NYCLat

\* C7: a well-formed config file of exactly the supported version resolves to
\* its own fields: version, api_url, api_key, the station list as written and
\* the location as written (zero when left out); nothing is defaulted and no
\* warning is logged.
C7_CurrentVersionVerbatim ==
    (Resolved /\ reads # << >> /\ LastRead.version = configSettingsVersion) =>
        /\ myConfig.Version = LastRead.version
        /\ myConfig.URL = LastRead.api_url
        /\ myConfig.Key = LastRead.api_key
        /\ myConfig.Stations = LastRead.stations
        /\ myConfig.Me = (IF LastRead.me = << >> THEN [Lat |-> 0, Lon |-> 0]
                          ELSE LastRead.me[1])
        /\ log = << >>

\* C7 witness: a version 3.0 file with a repeated station and a location on
\* the equator was resolved
C7_Witness ==
    /\ Resolved /\ reads # << >>
    /\ LastRead.version = configSettingsVersion
    /\ LastRead.stations = <<"ponceinlet", "ponceinlet">>
    /\ LastRead.me = <<[Lat |-> 0, Lon |-> -809500]>>

\* findConfigSettings is over: it returned or it panicked
FindOver == cpc \notin {"idle", "start", "find"} /\ nargs = 0

Candidates == {usualFiles(home)[i] : i \in 1..3}

\* C8 (amended): findConfigSettings returns the not-found error exactly when
\* no candidate path can be opened; main then logs the diagnostic and exits 3
\* with no network call.  (A candidate that opens and cannot be read panics.)
C8_NotFoundIffNoneOpens ==
    /\ FindOver =>
         ((\A c \in Candidates : Kind(c) = "absent")
            <=> (cpc \in {"resolved", "exit"} /\ err /\ netCalls = 0))
    /\ (FindOver /\ cpc = "exit" /\ \A c \in Candidates : Kind(c) = "absent")
         => /\ exitCode = 3
            /\ log = <<"Config file not found.">>
            /\ netCalls = 0
    /\ exitCode = 3 => \A c \in Candidates : Kind(c) = "absent"

\* C8 witness: HOME is set, none of the three candidates exists, main exited 3
C8_Witness ==
    /\ home /\ cpc = "exit" /\ exitCode = 3
    /\ Len(opened) = 3

\* C8 (as claimed): findConfigSettings fails with the not-found error exactly
\* when every candidate path is unreadable.
C8_NotFoundIffNoneReadable ==
    FindOver =>
        ((\A c \in Candidates : Kind(c) # "file")
           <=> (cpc \in {"resolved", "exit"} /\ err /\ netCalls = 0))

\* the fixed probing order
CandidateOrder ==
    <<"weatherstem.json", "$HOME/.weatherstem.json", "$HOME/.config/weatherstem.json">>

\* C9: the candidates are opened in the fixed order (without HOME only
\* ./weatherstem.json names a file); nothing is opened after a read; the
\* Config returned holds the fields of the first candidate that opens, its
\* location defaulted when that file takes the older-version branch.
C9_FirstReadableWins ==
    /\ cpc # "idle" =>
         /\ Len(opened) <= 3
         /\ \A i \in 1..Len(opened) :
              opened[i] = (IF home \/ i = 1 THEN CandidateOrder[i] ELSE "")
         /\ Len(reads) <= 1
         /\ reads # << >> => reads[1].path = opened[Len(opened)]
    /\ Resolved =>
         LET k == CHOOSE i \in 1..3 :
                    /\ Kind(usualFiles(home)[i]) # "absent"
                    /\ \A j \in 1..(i - 1) : Kind(usualFiles(home)[j]) = "absent"
             t == reads[1].text
         IN  /\ Len(opened) = k
             /\ reads[1].path = CandidateOrder[k]
             /\ myConfig.Version = t.version
             /\ myConfig.URL = t.api_url
             /\ myConfig.Key = t.api_key
             /\ myConfig.Stations = t.stations
             /\ LET given == IF t.me = << >> THEN [Lat |-> 0, Lon |-> 0] ELSE t.me[1]
                     older == VersionBranch(t.version) = "older"
                 IN  /\ myConfig.Me.Lat = (IF older /\ given.Lat = 0 THEN NYCLat ELSE given.Lat)
                     /\ myConfig.Me.Lon = (IF older /\ given.Lon = 0 THEN NYCLon ELSE given.Lon)

\* C9 witness: the first candidate is absent, the second and third are files,
\* and the Config came from the second
C9_Witness ==
    /\ Resolved /\ home
    /\ fs["weatherstem.json"] = "absent"
    /\ fs["$HOME/.weatherstem.json"] = "file"
    /\ fs["$HOME/.config/weatherstem.json"] = "file"
    /\ reads[1].path = "$HOME/.weatherstem.json"
    /\ myConfig.Key = "polyshazbotmicrofish"

\* C12: getConfigSettings finds the declared version in the raw text before
\* any structural parse: a text read without a version key ends with the
\* missing-version diagnostic, a malformed text declaring a version newer
\* than the supported one ends with the version-mismatch diagnostic and never
\* the malformed-config one, and the structural parse is attempted only in the
\* equal or the older branch.
C12_VersionBeforeParse ==
    reads # << >> =>
        /\ LastRead.sniff # "found" =>
             (cpc = "panic" /\ log = <<"No version in config file.">>)
        /\ (/\ LastRead.sniff = "found" /\ ~LastRead.valid
            /\ Newer(LastRead.version, configSettingsVersion))
           => (cpc = "panic" /\ log = <<"Config version mismatch">>)
        /\ (\E i \in 1..Len(log) : log[i] = "Cannot unmarshal config")
           => (LastRead.sniff = "found"
                 /\ VersionBranch(LastRead.version) \in {"equal", "older"})

\* ------------------------------------------------------------- claims: main
\* C10: a positional argument exits 0 after the legend with no file opened
\* and no POST; otherwise not-found exits 3, a failed POST exits 1, a body
\* that does not parse exits 2 and a run that prints exits 0; no POST is made
\* before the config is resolved and no body is parsed before the POST.
C10_ExitCodes ==
    /\ nargs > 0 =>
         /\ opened = << >> /\ netCalls = 0
         /\ cpc \in {"start", "exit"}
         /\ cpc = "exit" => exitCode = 0 /\ log = <<"Current WBGT flags:">>
    /\ (cpc = "exit" /\ nargs = 0) =>
         LET last == IF log = << >> THEN "" ELSE log[Len(log)]
         IN  /\ exitCode = 3 <=> (netCalls = 0 /\ last = "Config file not found.")
             /\ exitCode = 1 <=> (netCalls = 1 /\ last = "Call to API failed.")
             /\ exitCode = 2 <=> (netCalls = 1 /\ ~weatherBytes.ok
                                    /\ last = "Cannot unmarshal API results.")
             /\ exitCode = 0 <=> (netCalls = 1 /\ weatherBytes.ok
                                    /\ Len(dataArr) = Len(weatherBytes.arr))
             /\ exitCode \in 0..3
    /\ cpc \notin {"exit", "panic"} => exitCode = -1
    /\ netCalls > 0 => (reads # << >> /\ myConfig.Version # << >> /\ netCalls = 1)
    /\ cpc \in {"convert", "print"} => (netCalls = 1 /\ weatherBytes.ok)
    /\ weatherBytes # NoBody => netCalls = 1

\* C10 witness: the config was resolved, the POST returned a body, the body
\* did not parse and main exited 2
C10_Witness ==
    /\ cpc = "exit" /\ nargs = 0 /\ exitCode = 2
    /\ netCalls = 1

\* positions in the readings rs of the readings of label t
IndicesIn(rs, t) == {i \in 1..Len(rs) : rs[i].SensorType = t}

\* the last reading of label t in rs
LastOf(rs, t) == rs[CHOOSE k \in IndicesIn(rs, t) : \A i \in IndicesIn(rs, t) : i <= k]

\* what the slot of t holds after the readings rs, taken label by label
ExpectedSlot(rs, t) == IF IndicesIn(rs, t) = {} THEN SlotZero(t) ELSE Stored(LastOf(rs, t))

ExpectedUnit(rs, t) == IF IndicesIn(rs, t) = {} THEN << >> ELSE LastOf(rs, t).UnitSymbol

\* a reading of a numeric label whose value ParseFloat rejects
Malformed(val) ==
    /\ val.SensorType \in KnownSet \ {"Barometer Tendency"}
    /\ ParseFloat(val.Value).err

\* main has normalized the batch and not yet printed it
Converted == cpc = "print"

\* main has printed the batch and returned
Printed == cpc = "exit" /\ nargs = 0 /\ exitCode = 0

\* the malformed readings of rs that no later reading of their label overwrites
LastMalformed(rs) ==
    {k \in 1..Len(rs) : Malformed(rs[k]) /\ \A i \in IndicesIn(rs, rs[k].SensorType) : i <= k}

\* every station of the batch has its record, whose slots follow from its own
\* readings alone; around a malformed reading every other slot is what the
\* record without that reading gives
BatchUnharmed ==
    /\ Len(dataArr) = Len(weatherArr) /\ Len(unitArr) = Len(weatherArr)
    /\ \A j \in 1..Len(weatherArr) :
         LET rs == weatherArr[j].WeatherRecord.RecordReadings
             st == weatherArr[j].WeatherStation
         IN  /\ dataArr[j].Station[1] = st.Handle /\ dataArr[j].Station[2] = st.Name
             /\ \A t \in KnownSet :
                  /\ SlotValue(dataArr[j], t) = ExpectedSlot(rs, t)
                  /\ SlotUnit(unitArr[j], t) = ExpectedUnit(rs, t)
             /\ \A k \in 1..Len(rs) :
                  Malformed(rs[k]) =>
                      LET rest == RemoveAt(rs, k)
                      IN  \A t \in KnownSet \ {rs[k].SensorType} :
                              /\ SlotValue(dataArr[j], t) = ExpectedSlot(rest, t)
                              /\ SlotUnit(unitArr[j], t) = ExpectedUnit(rest, t)

\* nothing but the config stage's warning and the output line is in the log
NothingReported == \A i \in 1..Len(log) : log[i] \in {"WARNING", Printer}

====
